---- MODULE Spec2Model ----
(***************************************************************************)
(* The tile table of CustomTerrain (osgEarth, engine_osgterrain driver):   *)
(* registration of tiles, the update pass (snapshot, retirement marking,   *)
(* shutdown-queue drain, stamp propagation, neighbour refresh and request  *)
(* servicing), the cull pass, the render-thread GPU release drain, and the *)
(* lazily created task services.                                           *)
(***************************************************************************)
EXTENDS Integers, Sequences, FiniteSets, TLC

\* ---------------------------------------------------------------- bounds
NumTiles == 2
NumKeys == 2
MaxPending == 1
MaxFrame == 1

Tiles == 1..NumTiles
Keys == 1..NumKeys
NoTile == 0

MODE_STANDARD == "standard"
MODE_SEQUENTIAL == "sequential"
MODE_PREEMPTIVE == "preemptive"
Modes == {MODE_STANDARD, MODE_SEQUENTIAL, MODE_PREEMPTIVE}

VARIABLES
    mode,                \* _loadingPolicy.mode()
    quickRelease,        \* _quickReleaseGLObjects
    callbackInstalled,   \* _quickReleaseCallbackInstalled
    tileKey,             \* CustomTile::getKey() of a tile instance
    tiles,               \* _tiles: address -> tile instance
    tilesToShutDown,     \* _tilesToShutDown
    tilesToRelease,      \* _tilesToRelease
    registered,          \* tile instances passed to registerTile
    lastReg,             \* address -> instance most recently registered
    retired,             \* instances that left the shutdown queue
    removed,             \* instances whose table entry the drain erased
    extRefs,             \* references held outside the engine (scene graph)
    hasBeenTraversed,    \* CustomTile::getHasBeenTraversed()
    pending,             \* outstanding load requests of a tile
    tainted,             \* queued for release, and a request issued since
    upc,                 \* update pass: last phase finished
    stamp,               \* update pass: frame number
    utiles,              \* update pass: working copy of the tile list
    phaseLog,            \* update pass: phases run so far in this pass
    cpc,                 \* cull pass position
    ctiles,              \* cull pass: copy of the tile table
    rpc,                 \* render thread: inside releaseGLObjectsForTiles
    relStart,            \* release queue when the release call began
    relLog,              \* tiles released by the running release call
    taskServices,        \* _taskServices: identifier -> task service
    policy,              \* _loadingPolicy: the compile-thread settings
    created,             \* every task service constructed, in order
    callerPc,            \* accessor call of a thread: position
    callerArgs,          \* accessor call of a thread: arguments
    callerRet,           \* accessor call of a thread: service returned
    conf,                \* the inputs of construction: Config, environment
    numLoadingThreads,   \* _numLoadingThreads
    mapf,                \* MapFrame of the last updateTaskServiceThreads
    numRequests,         \* TaskService::getNumRequests of each service
    onDemandDelay,       \* _onDemandDelay
    numTasks,            \* result of the last getNumTasksRemaining call
    eventLog,            \* event passes: passes since tasks were seen, redraw
    revision,            \* _revision
    revPc,               \* incrementRevision of a thread: position
    revTmp,              \* incrementRevision of a thread: value read
    revSeen,             \* result of the last getRevision call
    fkey,                \* refreshFamily: the key and the profile
    family,              \* refreshFamily: the expected flags written
    ftiles,              \* the tiles stored under the keys of the relatives
    relatives,           \* refreshFamily: key and LODs of the five relatives
    lockPc,              \* position of a thread in the locking of its call
    tilesReaders,        \* _tilesMutex: the threads holding a read lock
    tilesWriter,         \* _tilesMutex: the thread holding the write lock
    registryOwner        \* _taskServiceMutex: the thread holding it

vars == <<mode, quickRelease, callbackInstalled, tileKey, tiles, tilesToShutDown,
          tilesToRelease, registered, lastReg, retired, removed, extRefs,
          hasBeenTraversed, pending, tainted, upc, stamp, utiles, phaseLog,
          cpc, ctiles, rpc, relStart, relLog, taskServices, policy, created,
          callerPc, callerArgs, callerRet, conf, numLoadingThreads, mapf,
          numRequests, onDemandDelay, numTasks, eventLog, revision, revPc,
          revTmp, revSeen, fkey, family, ftiles, relatives, lockPc,
          tilesReaders, tilesWriter, registryOwner>>

tileVars == <<extRefs, hasBeenTraversed, pending, tainted>>
updateVars == <<upc, stamp, utiles, phaseLog>>
cullVars == <<cpc, ctiles>>
releaseVars == <<rpc, relStart, relLog>>
tableVars == <<tileKey, tiles, registered, lastReg>>
queueVars == <<tilesToShutDown, tilesToRelease, retired, removed>>
configVars == <<mode, quickRelease, callbackInstalled>>
engineVars == <<mode, quickRelease, callbackInstalled, tileKey, tiles,
                tilesToShutDown, tilesToRelease, registered, lastReg,
                retired, removed, extRefs, hasBeenTraversed, pending,
                tainted, upc, stamp, utiles, phaseLog, cpc, ctiles, rpc,
                relStart, relLog>>
threadVars == <<conf, numLoadingThreads, mapf>>
eventVars == <<numRequests, onDemandDelay, numTasks, eventLog>>
revisionVars == <<revision, revPc, revTmp, revSeen>>
familyVars == <<fkey, family, ftiles, relatives>>
lockVars == <<lockPc, tilesReaders, tilesWriter, registryOwner>>
otherVars == <<threadVars, eventVars, revisionVars, familyVars, lockVars>>
callerVars == <<policy, created, callerPc, callerArgs, callerRet, otherVars>>
serviceVars == <<taskServices, callerVars>>

\* ---------------------------------------------------------------- services
NumLayers == 2
ELEVATION_TASK_SERVICE_ID == 9999
TILE_GENERATION_TASK_SERVICE_ID == 10000
LayerIds == 1..NumLayers
ServiceIds == LayerIds \cup {ELEVATION_TASK_SERVICE_ID,
                             TILE_GENERATION_TASK_SERVICE_ID}
NoService == [inst |-> 0, name |-> "", numThreads |-> 0, stamp |-> 0]
NumCallers == 2
MaxThreads == 2
Callers == 1..NumCallers
NoCall == [id |-> 0, name |-> "", numThreads |-> 0, lost |-> FALSE]

\* LoadingPolicy: compile_threads (optional) and compile_threads_per_core,
\* the latter in halves of a thread, and the number of processors.
DefaultPolicy ==
    [compileSet |-> FALSE, compile |-> 2, perCoreHalves |-> 1, procs |-> 2]
Policies ==
    [compileSet : BOOLEAN, compile : {0, 2}, perCoreHalves : {1},
     procs : {4}]

\* ---------------------------------------------------------------- helpers
Count(s, t) == Cardinality({i \in DOMAIN s : s[i] = t})
InSeq(s, t) == \E i \in DOMAIN s : s[i] = t
\* tile->getKey(): the address the instance was built for.
KeyOf(t) == tileKey[t]
InTable(t) == t \in registered /\ tiles[KeyOf(t)] = t

\* getCustomTiles: the table's values in address order.
getCustomTiles ==
    SelectSeq([k \in 1..NumKeys |-> tiles[k]], LAMBDA x : x # NoTile)

\* osg::Referenced::referenceCount: the owning pointers to the tile, which
\* are the table entry, the shutdown list, the release queue and the
\* references held outside the engine.
ReferenceCount(t) ==
    (IF InTable(t) THEN 1 ELSE 0) + extRefs[t]
        + Count(tilesToShutDown, t) + Count(tilesToRelease, t)

\* CustomTile::cancelRequests: true once no request is outstanding.
cancelRequests(t) == pending[t] = 0

\* CustomTile::getUseLayerRequests: sequential or preemptive mode.
getUseLayerRequests == mode # MODE_STANDARD

\* osg::maximum
Max(a, b) == IF a >= b THEN a ELSE b

\* ---------------------------------------------------------------- configuration
\* What construction reads: the "mode" and "loading_threads" keys of the
\* Config, the per-core multiplier (in halves of a thread), the environment
\* variable OSGEARTH_NUM_PREEMPTIVE_LOADING_THREADS and the processor count.
Absent == "(absent)"
ModeStrings == {Absent, "standard", "sequential", "preemptive", "bogus"}
EnvStrings == {Absent, "8", "x"}
ThreadSettings ==
    {[set |-> FALSE, value |-> 4], [set |-> TRUE, value |-> 0],
     [set |-> TRUE, value |-> 3]}
Confs ==
    [mode : ModeStrings, loadingThreads : ThreadSettings,
     perCoreHalves : {8, 1}, env : EnvStrings, procs : {1, 2}]
DefaultConf ==
    [mode |-> Absent, loadingThreads |-> [set |-> FALSE, value |-> 4],
     perCoreHalves |-> 8, env |-> Absent, procs |-> 2]

\* conf.getIfSet( "mode", str, _mode, val ): the mode becomes val when the
\* Config holds the key with exactly that string.
getIfSet(c, str, cur, val) == IF c.mode = str THEN val ELSE cur

\* A fromConfig that takes every unrecognised string for sequential.
fromConfig_ElseSequential(c, cur) ==
    IF c.mode = "standard" THEN MODE_STANDARD
    ELSE IF c.mode = "preemptive" THEN MODE_PREEMPTIVE
    ELSE IF c.mode = Absent THEN cur
    ELSE MODE_SEQUENTIAL

\* LoadingPolicy::LoadingPolicy and fromConfig: the mode starts as
\* MODE_STANDARD and the three getIfSet calls run in order.
fromConfig(c, cur) ==
    getIfSet(c, "preemptive",
        getIfSet(c, "sequential",
            getIfSet(c, "standard", cur, MODE_STANDARD),
            MODE_SEQUENTIAL),
        MODE_PREEMPTIVE)
LoadingPolicy(c) ==
    [mode |-> fromConfig(c, MODE_STANDARD),
     numLoadingThreads |-> c.loadingThreads,
     numLoadingThreadsPerCoreHalves |-> c.perCoreHalves]

\* ::atoi of the strings the environment variable takes here.
atoi(str) == IF str = "8" THEN 8 ELSE 0

\* A constructor that prefers the configured count to the environment.
ConstructorThreads_ConfigFirst(lp, c) ==
    IF lp.mode # MODE_STANDARD
    THEN IF lp.numLoadingThreads.set
         THEN Max(1, lp.numLoadingThreads.value)
         ELSE IF c.env # Absent THEN atoi(c.env)
              ELSE Max(1, (lp.numLoadingThreadsPerCoreHalves * c.procs)
                              \div 2)
    ELSE 0

\* The constructor's choice of _numLoadingThreads for the policy lp.
ConstructorThreads(lp, c) ==
    IF lp.mode # MODE_STANDARD
    THEN IF c.env # Absent THEN atoi(c.env)
         ELSE IF lp.numLoadingThreads.set
              THEN Max(1, lp.numLoadingThreads.value)
              ELSE Max(1, (lp.numLoadingThreadsPerCoreHalves * c.procs)
                              \div 2)
    ELSE 0

\* The Config that selects a mode, everything else left at its default.
ModeString(m) ==
    CASE m = MODE_SEQUENTIAL -> "sequential"
      [] m = MODE_PREEMPTIVE -> "preemptive"
      [] OTHER -> "standard"
ConfFor(m) == [DefaultConf EXCEPT !.mode = ModeString(m)]

\* ---------------------------------------------------------------- init
\* No updateTaskServiceThreads call yet, no event pass yet, no refreshFamily
\* call yet.
NoMap == [elevation |-> <<>>, imageLayers |-> {}, weight |-> <<>>]
NoEvents == [since |-> 0, seen |-> FALSE, redraw |-> FALSE, fresh |-> FALSE]
NoFamilyKey == [x |-> 0, y |-> 0, tileCountX |-> 0, tileCountY |-> 0,
                wrapX |-> FALSE]
NoFamily == [done |-> FALSE, west |-> FALSE, east |-> FALSE,
             north |-> FALSE, south |-> FALSE, parent |-> FALSE]

\* The keys of a tile's level (up = 0) and of the level above it (up = 1),
\* "no tile stored", and a Relative no refreshFamily call has written.
Directions == {"PARENT", "WEST", "NORTH", "EAST", "SOUTH"}
NoStoredTile == [valid |-> FALSE, elevLOD |-> 0, layers |-> <<>>]
NoRelative == [key |-> [up |-> 0, x |-> 0, y |-> 0], elevLOD |-> -1,
               imageLODs |-> <<>>]

\* The threads that call into the engine, and "no thread".
LockThreads == {"update", "cull", "event", "pager", "draw", "app"}
NoThread == "(none)"

\* The members the constructor sets for the Config c, and the state of the
\* callers of the other entry points before their first call.
InitOther(c) ==
    /\ conf = c
    /\ numLoadingThreads = ConstructorThreads(LoadingPolicy(c), c)
    /\ mapf = NoMap
    /\ numRequests = [id \in ServiceIds |-> 0]
    /\ onDemandDelay = 2
    /\ numTasks = 0
    /\ eventLog = NoEvents
    /\ revision = 0
    /\ revPc = [c2 \in Callers |-> "idle"]
    /\ revTmp = [c2 \in Callers |-> 0]
    /\ revSeen = 0
    /\ fkey = NoFamilyKey
    /\ family = NoFamily
    /\ ftiles = [key \in {} |-> NoStoredTile]
    /\ relatives = [d \in Directions |-> NoRelative]
    /\ lockPc = [th \in LockThreads |-> 0]
    /\ tilesReaders = {}
    /\ tilesWriter = NoThread
    /\ registryOwner = NoThread

InitEngine ==
    /\ callbackInstalled = FALSE
    /\ tileKey = [t \in Tiles |-> 1]
    /\ tiles = [k \in Keys |-> NoTile]
    /\ tilesToShutDown = <<>>
    /\ tilesToRelease = <<>>
    /\ registered = {}
    /\ lastReg = [k \in Keys |-> NoTile]
    /\ retired = {}
    /\ removed = {}
    /\ extRefs = [t \in Tiles |-> 0]
    /\ hasBeenTraversed = [t \in Tiles |-> FALSE]
    /\ pending = [t \in Tiles |-> 0]
    /\ tainted = {}
    /\ upc = "idle"
    /\ stamp = 0
    /\ utiles = <<>>
    /\ phaseLog = <<>>
    /\ cpc = "idle"
    /\ ctiles = <<>>
    /\ rpc = "idle"
    /\ relStart = <<>>
    /\ relLog = <<>>
    /\ taskServices = [id \in ServiceIds |-> NoService]
    /\ created = <<>>
    /\ callerPc = [c \in Callers |-> "idle"]
    /\ callerArgs = [c \in Callers |-> NoCall]
    /\ callerRet = [c \in Callers |-> 0]

Init ==
    /\ mode \in Modes
    /\ quickRelease \in BOOLEAN
    /\ policy = DefaultPolicy
    /\ InitEngine
    /\ InitOther(ConfFor(mode))

\* A write lock that does not wait for the readers.
NoReaders_NoWait == TRUE

\* The tile-table lock: every write section is one step, so the lock is
\* held across steps only by the release call (a read lock).
NoReaders == rpc = "idle"

\* ---------------------------------------------------------------- registerTile
\* The tile factory builds instance t for address k and registers it.
\* Instances are numbered in the order they are registered, and addresses
\* in the order they are first used.
UsedKeys == {tileKey[u] : u \in registered}
registerTile(t, k) ==
    /\ NoReaders
    /\ t = Cardinality(registered) + 1
    /\ k <= Cardinality(UsedKeys) + 1
    /\ tileKey' = [tileKey EXCEPT ![t] = k]
    /\ tiles' = [tiles EXCEPT ![k] = t]
    /\ registered' = registered \cup {t}
    /\ lastReg' = [lastReg EXCEPT ![k] = t]
    /\ UNCHANGED <<configVars, queueVars, tileVars, updateVars, cullVars,
                   releaseVars, serviceVars>>

\* ---------------------------------------------------------------- scene graph
\* The scene graph takes a reference to a registered tile.
AddRef(t) ==
    /\ t \in registered
    /\ extRefs[t] = 0
    /\ ~hasBeenTraversed[t]
    /\ extRefs' = [extRefs EXCEPT ![t] = 1]
    /\ UNCHANGED <<configVars, tableVars, queueVars, hasBeenTraversed,
                   pending, tainted, updateVars, cullVars, releaseVars,
                   serviceVars>>

\* The renderer visits a tile of the scene graph.
TraverseTile(t) ==
    /\ extRefs[t] = 1
    /\ ~hasBeenTraversed[t]
    /\ hasBeenTraversed' = [hasBeenTraversed EXCEPT ![t] = TRUE]
    /\ UNCHANGED <<configVars, tableVars, queueVars, extRefs, pending,
                   tainted, updateVars, cullVars, releaseVars, serviceVars>>

\* The scene graph drops its reference (the tile expired).
Unref(t) ==
    /\ extRefs[t] = 1
    /\ extRefs' = [extRefs EXCEPT ![t] = 0]
    /\ UNCHANGED <<configVars, tableVars, queueVars, hasBeenTraversed,
                   pending, tainted, updateVars, cullVars, releaseVars,
                   serviceVars>>

\* A worker thread finishes (or acknowledges the cancellation of) a request.
RequestDone(t) ==
    /\ pending[t] > 0
    /\ pending' = [pending EXCEPT ![t] = @ - 1]
    /\ UNCHANGED <<configVars, tableVars, queueVars, extRefs,
                   hasBeenTraversed, tainted, updateVars, cullVars,
                   releaseVars, serviceVars>>

\* Requests issued by a servicing call on the tiles of s: a tile with a
\* free request line may start one request.
Issuable(s) == {t \in Tiles : InSeq(s, t) /\ pending[t] < MaxPending}
IssueRequests(S) ==
    /\ pending' = [t \in Tiles |-> IF t \in S THEN pending[t] + 1
                                   ELSE pending[t]]
    /\ tainted' = tainted \cup {t \in S : InSeq(tilesToRelease, t)}

\* ---------------------------------------------------------------- update pass
\* An update pass that propagates the stamp before it drains.
NextPhase_StampFirst(p) ==
    CASE p = "idle" -> "snapshot"
      [] p = "snapshot" -> "mark"
      [] p = "mark" -> "stamp"
      [] p = "stamp" -> "drain"
      [] p = "drain" -> "service"
      [] OTHER -> "idle"

\* The phases of CustomTerrain::traverse for an UPDATE_VISITOR, in the
\* order of the code: each phase runs once the one before it has finished.
NextPhase(p) ==
    CASE p = "idle" -> "snapshot"
      [] p = "snapshot" -> "mark"
      [] p = "mark" -> "drain"
      [] p = "drain" -> "stamp"
      [] p = "stamp" -> "service"
      [] OTHER -> "idle"

\* Install the quick-release draw callback (when a camera is found), read
\* the frame number and take the working copy of the tile list.
UpdateBegin ==
    /\ upc = "idle"
    /\ \E cam \in BOOLEAN :
           callbackInstalled' =
               IF quickRelease /\ ~callbackInstalled THEN cam
               ELSE callbackInstalled
    /\ stamp' \in 0..MaxFrame
    /\ utiles' = getCustomTiles
    /\ upc' = NextPhase(upc)
    /\ phaseLog' = <<>>
    /\ UNCHANGED <<mode, quickRelease, tableVars, queueVars, tileVars,
                   cullVars, releaseVars, serviceVars>>

\* A marking test that does not ask whether the tile was traversed.
IsDead_Untraversed(t) == ReferenceCount(t) = 1

\* A marking test that waits for the last reference to go.
IsDead_ZeroRefs(t) == ReferenceCount(t) = 0 /\ hasBeenTraversed[t]

\* A "dead" tile: only one reference left, and the renderer has seen it.
IsDead(t) == ReferenceCount(t) = 1 /\ hasBeenTraversed[t]

\* Collect the dead tiles of the working copy and queue them for shutdown.
UpdateMark ==
    /\ NextPhase(upc) = "mark"
    /\ tilesToShutDown' = tilesToShutDown \o SelectSeq(utiles, IsDead)
    /\ utiles' = SelectSeq(utiles, LAMBDA t : ~IsDead(t))
    /\ upc' = "mark"
    /\ phaseLog' = Append(phaseLog, "mark")
    /\ UNCHANGED <<configVars, tableVars, tilesToRelease, retired, removed,
                   tileVars, stamp, cullVars, releaseVars, serviceVars>>

\* _tiles.erase( tile->getKey() )
EraseEntry(tbl, t) == [tbl EXCEPT ![KeyOf(t)] = NoTile]

\* A drain that queues for release only while no callback is installed.
ShouldQueueRelease_Inverted == quickRelease /\ ~callbackInstalled

\* if ( _quickReleaseGLObjects && _quickReleaseCallbackInstalled )
ShouldQueueRelease == quickRelease /\ callbackInstalled

\* The loop over _tilesToShutDown: a tile whose cancelRequests() succeeds
\* is queued for release (quick release), erased from the table by its
\* address and dropped from the list; any other tile stays in the list.
RECURSIVE DrainList(_, _)
DrainList(list, st) ==
    IF list = <<>> THEN st
    ELSE LET t == Head(list) IN
         IF cancelRequests(t)
         THEN DrainList(Tail(list),
                  [tbl |-> EraseEntry(st.tbl, t),
                   rel |-> IF ShouldQueueRelease THEN Append(st.rel, t)
                           ELSE st.rel,
                   keep |-> st.keep,
                   ret |-> st.ret \cup {t},
                   rem |-> st.rem \cup
                           ({st.tbl[KeyOf(t)]} \ {NoTile})])
         ELSE DrainList(Tail(list), [st EXCEPT !.keep = Append(@, t)])

\* The exclusive section: shut down the dead tiles whose tasks are done.
UpdateDrain ==
    /\ NextPhase(upc) = "drain"
    /\ NoReaders
    /\ LET r == DrainList(tilesToShutDown,
                          [tbl |-> tiles, rel |-> tilesToRelease,
                           keep |-> <<>>, ret |-> {}, rem |-> {}])
       IN /\ tiles' = r.tbl
          /\ tilesToRelease' = r.rel
          /\ tilesToShutDown' = r.keep
          /\ retired' = retired \cup r.ret
          /\ removed' = removed \cup r.rem
    /\ upc' = "drain"
    /\ phaseLog' = Append(phaseLog, "drain")
    /\ UNCHANGED <<configVars, tileKey, registered, lastReg, tileVars,
                   stamp, utiles, cullVars,
                   releaseVars, serviceVars>>

\* A stamp loop that reaches the elevation service only.
StampAll_ElevationOnly(ts, s) ==
    [id \in DOMAIN ts |->
        IF ts[id] = NoService \/ id # ELEVATION_TASK_SERVICE_ID THEN ts[id]
        ELSE [ts[id] EXCEPT !.stamp = s]]

\* The loop over _taskServices: setStamp( stamp ) on every service stored.
StampAll(ts, s) ==
    [id \in DOMAIN ts |->
        IF ts[id] = NoService THEN ts[id] ELSE [ts[id] EXCEPT !.stamp = s]]

\* Stamp propagation, under _taskServiceMutex.
UpdateStamp ==
    /\ NextPhase(upc) = "stamp"
    /\ taskServices' = StampAll(taskServices, stamp)
    /\ upc' = "stamp"
    /\ phaseLog' = Append(phaseLog, "stamp")
    /\ UNCHANGED <<configVars, tableVars, queueVars, tileVars, stamp,
                   utiles, cullVars, releaseVars, callerVars>>

\* The read-locked section: refreshFamily on every tile of the working
\* copy and, in sequential or preemptive mode, the servicing of its
\* elevation requests and of its completed requests.
UpdateService ==
    /\ NextPhase(upc) = "service"
    /\ IF getUseLayerRequests
       THEN \E S \in SUBSET Issuable(utiles) : IssueRequests(S)
       ELSE UNCHANGED <<pending, tainted>>
    /\ upc' = "idle"
    /\ phaseLog' = Append(phaseLog, "service")
    /\ stamp' = 0
    /\ utiles' = <<>>
    /\ UNCHANGED <<configVars, tableVars, queueVars, extRefs,
                   hasBeenTraversed, cullVars, releaseVars, serviceVars>>

\* ---------------------------------------------------------------- cull pass
\* CULL_VISITOR: outside standard mode, copy the tile table ...
CullBegin ==
    /\ cpc = "idle"
    /\ mode # MODE_STANDARD
    /\ ctiles' = getCustomTiles
    /\ cpc' = "copied"
    /\ UNCHANGED <<configVars, tableVars, queueVars, tileVars, updateVars,
                   releaseVars, serviceVars>>

\* ... and call servicePendingImageRequests on every tile of the copy.
CullService ==
    /\ cpc = "copied"
    /\ \E S \in SUBSET Issuable(ctiles) : IssueRequests(S)
    /\ cpc' = "idle"
    /\ ctiles' = <<>>
    /\ UNCHANGED <<configVars, tableVars, queueVars, extRefs,
                   hasBeenTraversed, updateVars, releaseVars, serviceVars>>

\* ---------------------------------------------------------------- release
\* A release loop that releases the back of the queue.
QueueFront_Back(q) == q[Len(q)]

\* _tilesToRelease.front() and _tilesToRelease.pop()
QueueFront(q) == Head(q)
QueuePop(q) == Tail(q)

\* releaseGLObjectsForTiles, called by the quick-release draw callback on
\* the render thread: take the read lock ...
ReleaseBegin ==
    /\ rpc = "idle"
    /\ callbackInstalled
    /\ rpc' = "locked"
    /\ relStart' = tilesToRelease
    /\ relLog' = <<>>
    /\ UNCHANGED <<configVars, tableVars, queueVars, tileVars, updateVars,
                   cullVars, serviceVars>>

\* ... release the GL objects of the front tile and pop it ...
ReleaseStep ==
    /\ rpc = "locked"
    /\ Len(tilesToRelease) > 0
    /\ LET t == QueueFront(tilesToRelease)
       IN /\ relLog' = Append(relLog, t)
          /\ tainted' = tainted \ {t}
    /\ tilesToRelease' = QueuePop(tilesToRelease)
    /\ UNCHANGED <<configVars, tableVars, tilesToShutDown, retired, removed,
                   extRefs, hasBeenTraversed, pending, updateVars, cullVars,
                   rpc, relStart, serviceVars>>

\* ... until the queue is empty.
ReleaseEnd ==
    /\ rpc = "locked"
    /\ Len(tilesToRelease) = 0
    /\ rpc' = "idle"
    /\ relStart' = <<>>
    /\ relLog' = <<>>
    /\ UNCHANGED <<configVars, tableVars, queueVars, tileVars, updateVars,
                   cullVars, serviceVars>>

\* ---------------------------------------------------------------- tile table
Next ==
    \/ \E t \in Tiles, k \in Keys : registerTile(t, k)
    \/ \E t \in Tiles : AddRef(t)
    \/ \E t \in Tiles : TraverseTile(t)
    \/ \E t \in Tiles : Unref(t)
    \/ \E t \in Tiles : RequestDone(t)
    \/ UpdateBegin
    \/ UpdateMark
    \/ UpdateDrain
    \/ UpdateStamp
    \/ UpdateService
    \/ CullBegin
    \/ CullService
    \/ ReleaseBegin
    \/ ReleaseStep
    \/ ReleaseEnd

Spec == Init /\ [][Next]_vars

\* Update passes keep running, the exclusive lock is granted to a waiting
\* writer, and a release call that holds the read lock runs to its end.
Fairness ==
    /\ WF_vars(UpdateBegin)
    /\ WF_vars(UpdateMark)
    /\ SF_vars(UpdateDrain)
    /\ WF_vars(UpdateStamp)
    /\ WF_vars(UpdateService)
    /\ WF_vars(ReleaseStep)
    /\ WF_vars(ReleaseEnd)

FairSpec == Init /\ [][Next]_vars /\ Fairness

\* ---------------------------------------------------------------- task services
\* getTaskService: the service stored for the identifier, or none.
getTaskService(id) == taskServices[id].inst

\* createTaskService without its double check.
ServiceExists_NoCheck(id) == FALSE

\* The double check of createTaskService: is a service stored already?
ServiceExists(id) == taskServices[id] # NoService

\* createTaskService, under _taskServiceMutex: return the stored service,
\* or construct one, store it and return it.
createTaskService(c, a) ==
    IF ServiceExists(a.id)
    THEN /\ callerRet' = [callerRet EXCEPT ![c] = taskServices[a.id].inst]
         /\ callerArgs' = [callerArgs EXCEPT ![c] = [a EXCEPT !.lost = TRUE]]
         /\ UNCHANGED <<taskServices, created>>
    ELSE LET service == [inst |-> Len(created) + 1, name |-> a.name,
                         numThreads |-> a.numThreads, stamp |-> 0]
         IN /\ taskServices' = [taskServices EXCEPT ![a.id] = service]
            /\ created' = Append(created, [id |-> a.id,
                                            inst |-> service.inst,
                                            name |-> a.name,
                                            numThreads |-> a.numThreads])
            /\ callerRet' = [callerRet EXCEPT ![c] = service.inst]
            /\ callerArgs' = [callerArgs EXCEPT ![c] = a]

\* A thread calls createTaskService itself.
CreateCall(c, name, id, n) ==
    /\ callerPc[c] = "idle"
    /\ createTaskService(c, [id |-> id, name |-> name, numThreads |-> n,
                             lost |-> FALSE])
    /\ UNCHANGED <<engineVars, policy, callerPc, otherVars>>

\* The first half of an accessor: getTaskService( id ), and a return when
\* the service is there.
AccessorLookup(c, id, name, n) ==
    /\ callerPc[c] = "idle"
    /\ callerArgs' = [callerArgs EXCEPT ![c] =
           [id |-> id, name |-> name, numThreads |-> n, lost |-> FALSE]]
    /\ callerRet' = [callerRet EXCEPT ![c] = getTaskService(id)]
    /\ callerPc' = [callerPc EXCEPT ![c] =
           IF getTaskService(id) = 0 THEN "missed" ELSE "idle"]
    /\ UNCHANGED <<engineVars, taskServices, policy, created, otherVars>>

\* The second half: if (!service) service = createTaskService( ... ).
AccessorCreate(c) ==
    /\ callerPc[c] = "missed"
    /\ createTaskService(c, callerArgs[c])
    /\ callerPc' = [callerPc EXCEPT ![c] = "idle"]
    /\ UNCHANGED <<engineVars, policy, otherVars>>

LayerName(layerId) == "layer " \o ToString(layerId)

\* numCompileThreads of getTileGenerationTaskSerivce.
numCompileThreads ==
    IF policy.compileSet THEN Max(1, policy.compile)
    ELSE Max(1, (policy.perCoreHalves * policy.procs) \div 2)

getElevationTaskService(c) ==
    AccessorLookup(c, ELEVATION_TASK_SERVICE_ID, "elevation", 1)
getImageryTaskService(c, layerId) ==
    AccessorLookup(c, layerId, LayerName(layerId), 1)
getTileGenerationTaskSerivce(c) ==
    AccessorLookup(c, TILE_GENERATION_TASK_SERVICE_ID, "tilegen",
                   numCompileThreads)

CallNames == {"custom"}

\* The layers and identifiers whose first access the threads race for.
NumRacedLayers == 1
RacedLayers == 1..NumRacedLayers
RacedIds == RacedLayers \cup {ELEVATION_TASK_SERVICE_ID,
                              TILE_GENERATION_TASK_SERVICE_ID}

SvcInit ==
    /\ mode = MODE_PREEMPTIVE
    /\ quickRelease = FALSE
    /\ policy \in Policies
    /\ InitEngine
    /\ InitOther(ConfFor(mode))

SvcNext ==
    \/ \E c \in Callers : getElevationTaskService(c)
    \/ \E c \in Callers, l \in RacedLayers : getImageryTaskService(c, l)
    \/ \E c \in Callers : getTileGenerationTaskSerivce(c)
    \/ \E c \in Callers : AccessorCreate(c)
    \/ \E c \in Callers, name \in CallNames, id \in RacedIds,
          n \in 1..MaxThreads : CreateCall(c, name, id, n)

SvcSpec == SvcInit /\ [][SvcNext]_vars

\* ---------------------------------------------------------------- thread budget
\* A MapFrame: the loading weights of the elevation layers, the image
\* layers it holds (by UID) and their loading weights.
Weights == {0, 1, 3}
ElevationWeights == {<<>>, <<0>>, <<1>>, <<1, 3>>}
MapFrames ==
    {m \in [elevation : ElevationWeights, imageLayers : SUBSET LayerIds,
            weight : [LayerIds -> Weights]] :
        \A l \in LayerIds \ m.imageLayers : m.weight[l] = 0}

\* The maximum elevation weight, the total image weight and their sum.
RECURSIVE MaxOf(_)
MaxOf(ws) == IF ws = <<>> THEN 0 ELSE Max(Head(ws), MaxOf(Tail(ws)))
RECURSIVE SumOver(_, _)
SumOver(f, S) ==
    IF S = {} THEN 0
    ELSE LET l == CHOOSE x \in S : TRUE IN f[l] + SumOver(f, S \ {l})
elevationWeight(m) == MaxOf(m.elevation)
totalImageWeight(m) == SumOver(m.weight, m.imageLayers)
totalWeight(m) == elevationWeight(m) + totalImageWeight(m)

\* A rounding that truncates, and one that rounds up.
Round_Truncate(num, den) == num \div den
Round_Ceiling(num, den) == (num + den - 1) \div den

\* (int)osg::round( v ) for v = num / den >= 0: floor( v + 0.5 ).
Round(num, den) == (2 * num + den) \div (2 * den)

\* What a conversion of a NaN to int may yield (total weight zero).
UndefinedInts == {(-2147483647) - 1, 0}

\* (int)osg::round( (float)_numLoadingThreads * (w / totalWeight) )
Share(w, total, u) ==
    IF total > 0 THEN Round(numLoadingThreads * w, total) ELSE u

\* TaskService::setNumThreads for a layer of weight w: the count is not
\* lowered below 1 where the weight is nonzero.
setNumThreads(n, w) == IF w > 0 THEN Max(1, n) ELSE n

\* get...TaskService()->setNumThreads( n ): the accessor creates the
\* service (with one thread) when it is not there yet.
Resize(st, id, name, n) ==
    LET ts == IF st.ts[id] # NoService THEN st.ts
              ELSE [st.ts EXCEPT ![id] =
                       [inst |-> Len(st.cr) + 1, name |-> name,
                        numThreads |-> 1, stamp |-> 0]]
        cr == IF st.ts[id] # NoService THEN st.cr
              ELSE Append(st.cr, [id |-> id, inst |-> Len(st.cr) + 1,
                                   name |-> name, numThreads |-> 1])
    IN [ts |-> [ts EXCEPT ![id].numThreads = n], cr |-> cr]

\* The loop over the image layers, in the order of their UIDs.
RECURSIVE ResizeImageLayers(_, _, _, _)
ResizeImageLayers(l, st, m, u) ==
    IF l > NumLayers THEN st
    ELSE IF l \notin m.imageLayers
         THEN ResizeImageLayers(l + 1, st, m, u)
         ELSE ResizeImageLayers(l + 1,
                  Resize(st, l, LayerName(l),
                         setNumThreads(Share(m.weight[l], totalWeight(m), u),
                                       m.weight[l])),
                  m, u)

\* The calls followed: the first call after construction, and calls that
\* repeat the map frame of the call before.
updateTaskServiceThreads(m, u) ==
    /\ mapf = NoMap \/ mapf = m
    /\ LET st0 == [ts |-> taskServices, cr |-> created]
           st1 == IF elevationWeight(m) > 0
                  THEN Resize(st0, ELEVATION_TASK_SERVICE_ID, "elevation",
                              setNumThreads(
                                  Share(elevationWeight(m), totalWeight(m), u),
                                  elevationWeight(m)))
                  ELSE st0
           st2 == ResizeImageLayers(1, st1, m, u)
       IN /\ taskServices' = st2.ts
          /\ created' = st2.cr
    /\ mapf' = m
    /\ UNCHANGED <<engineVars, policy, callerPc, callerArgs, callerRet, conf,
                   numLoadingThreads, eventVars, revisionVars, familyVars,
                   lockVars>>

\* Construction from any Config, then rebalancing calls.
ThreadInit ==
    /\ \E c \in Confs :
           /\ mode = LoadingPolicy(c).mode
           /\ InitOther(c)
    /\ quickRelease = FALSE
    /\ policy = DefaultPolicy
    /\ InitEngine

ThreadNext ==
    \E m \in MapFrames, u \in UndefinedInts : updateTaskServiceThreads(m, u)

ThreadSpec == ThreadInit /\ [][ThreadNext]_vars

\* ---------------------------------------------------------------- event pass
MaxRequests == 2
MaxSince == 3

\* A unit of work is queued on an existing task service, and a worker
\* thread finishes one.
SubmitRequest(id) ==
    /\ ServiceExists(id)
    /\ numRequests[id] < MaxRequests
    /\ numRequests' = [numRequests EXCEPT ![id] = @ + 1]
    /\ eventLog' = [eventLog EXCEPT !.fresh = FALSE]
    /\ UNCHANGED <<engineVars, taskServices, policy, created, callerPc,
                   callerArgs, callerRet, threadVars, onDemandDelay,
                   numTasks, revisionVars, familyVars, lockVars>>

CompleteRequest(id) ==
    /\ numRequests[id] > 0
    /\ numRequests' = [numRequests EXCEPT ![id] = @ - 1]
    /\ eventLog' = [eventLog EXCEPT !.fresh = FALSE]
    /\ UNCHANGED <<engineVars, taskServices, policy, created, callerPc,
                   callerArgs, callerRet, threadVars, onDemandDelay,
                   numTasks, revisionVars, familyVars, lockVars>>

\* A variant that counts the first service of the registry only.
TotalRequests_FirstOnly(S) ==
    IF S = {} THEN 0
    ELSE numRequests[CHOOSE id \in S : \A other \in S : id <= other]

\* total += itr->second->getNumRequests() over the services of S.
RECURSIVE TotalRequests(_)
TotalRequests(S) ==
    IF S = {} THEN 0
    ELSE LET id == CHOOSE x \in S : TRUE
         IN numRequests[id] + TotalRequests(S \ {id})

\* getNumTasksRemaining, under _taskServiceMutex.
getNumTasksRemaining ==
    TotalRequests({id \in ServiceIds : ServiceExists(id)})

\* A caller outside the engine asks for the number of tasks remaining.
TasksRemainingCall ==
    /\ numTasks' = getNumTasksRemaining
    /\ eventLog' = [eventLog EXCEPT !.fresh = TRUE]
    /\ UNCHANGED <<engineVars, taskServices, policy, created, callerPc,
                   callerArgs, callerRet, threadVars, numRequests,
                   onDemandDelay, revisionVars, familyVars, lockVars>>

\* A variant that never re-arms the delay.
DelayAfterTasks_NoReset(n, d) == d

\* if ( numTasks > 0 ) _onDemandDelay = 2;
DelayAfterTasks(n, d) == IF n > 0 THEN 2 ELSE d

\* A variant that counts down on every pass.
CountDown_Always(d) == d - 1

\* if ( _onDemandDelay > 0 ) { requestRedraw(); _onDemandDelay--; }
CountDown(d) == IF d > 0 THEN d - 1 ELSE d

\* CustomTerrain::traverse for an EVENT_VISITOR: re-arm the delay while
\* tasks remain; request a redraw and count down while it is positive.
EventTraverse ==
    LET n == getNumTasksRemaining
        d == DelayAfterTasks(n, onDemandDelay)
    IN /\ numTasks' = n
       /\ onDemandDelay' = CountDown(d)
       /\ eventLog' =
              [since |-> IF n > 0 THEN 0
                         ELSE IF eventLog.since < MaxSince
                              THEN eventLog.since + 1 ELSE MaxSince,
               seen |-> eventLog.seen \/ n > 0,
               redraw |-> d > 0,
               fresh |-> TRUE]
       /\ UNCHANGED <<engineVars, taskServices, policy, created, callerPc,
                      callerArgs, callerRet, threadVars, numRequests,
                      revisionVars, familyVars, lockVars>>

\* One thread creates the services by their accessors; work comes and
\* goes; event passes run.
EventInit ==
    /\ mode = MODE_PREEMPTIVE
    /\ quickRelease = FALSE
    /\ policy = DefaultPolicy
    /\ InitEngine
    /\ InitOther(ConfFor(mode))

EventNext ==
    \/ getElevationTaskService(1)
    \/ \E l \in RacedLayers : getImageryTaskService(1, l)
    \/ getTileGenerationTaskSerivce(1)
    \/ AccessorCreate(1)
    \/ \E id \in ServiceIds : SubmitRequest(id)
    \/ \E id \in ServiceIds : CompleteRequest(id)
    \/ TasksRemainingCall
    \/ EventTraverse

EventSpec == EventInit /\ [][EventNext]_vars

\* ---------------------------------------------------------------- revision
MaxRevision == 3

\* incrementRevision: _revision++ with no lock and no atomic, so the read
\* and the write of a thread are two steps other threads can come between.
IncrementRead(c) ==
    /\ revPc[c] = "idle"
    /\ revision < MaxRevision
    /\ revTmp' = [revTmp EXCEPT ![c] = revision]
    /\ revPc' = [revPc EXCEPT ![c] = "read"]
    /\ UNCHANGED <<engineVars, taskServices, policy, created, callerPc,
                   callerArgs, callerRet, threadVars, eventVars, revision,
                   revSeen, familyVars, lockVars>>

IncrementWrite(c) ==
    /\ revPc[c] = "read"
    /\ revision' = revTmp[c] + 1
    /\ revPc' = [revPc EXCEPT ![c] = "idle"]
    /\ revTmp' = [revTmp EXCEPT ![c] = 0]
    /\ UNCHANGED <<engineVars, taskServices, policy, created, callerPc,
                   callerArgs, callerRet, threadVars, eventVars, revSeen,
                   familyVars, lockVars>>

\* getRevision: return _revision, with no lock.
getRevision ==
    /\ revSeen' = revision
    /\ UNCHANGED <<engineVars, taskServices, policy, created, callerPc,
                   callerArgs, callerRet, threadVars, eventVars, revision,
                   revPc, revTmp, familyVars, lockVars>>

RevisionInit ==
    /\ mode = MODE_STANDARD
    /\ quickRelease = FALSE
    /\ policy = DefaultPolicy
    /\ InitEngine
    /\ InitOther(ConfFor(mode))

RevisionNext ==
    \/ \E c \in Callers : IncrementRead(c)
    \/ \E c \in Callers : IncrementWrite(c)
    \/ getRevision

RevisionSpec == RevisionInit /\ [][RevisionNext]_vars

\* ---------------------------------------------------------------- refreshFamily
MaxTileCount == 4

\* The tile keys of a level with tileCountX by tileCountY tiles, on a
\* profile that wraps in X (geocentric) or does not.
FamilyKeys ==
    {k \in [x : 0..(MaxTileCount - 1), y : 0..(MaxTileCount - 1),
            tileCountX : 1..MaxTileCount, tileCountY : 1..MaxTileCount,
            wrapX : BOOLEAN] :
        k.x < k.tileCountX /\ k.y < k.tileCountY}

\* A variant in which wrapping makes the NORTH neighbour expected too.
NorthExpected_Wraps(k) == k.y < k.tileCountY - 1 \/ k.wrapX

\* family[...].expected of the four neighbours.
WestExpected(k) == k.x > 0 \/ k.wrapX
EastExpected(k) == k.x < k.tileCountX - 1 \/ k.wrapX
NorthExpected(k) == k.y < k.tileCountY - 1
SouthExpected(k) == k.y > 0

\* TileKey::createParentKey and TileKey::createNeighborKey: the key one
\* level up, and the key one tile over, wrapping at the edges of the level.
createParentKey(k) == [up |-> 1, x |-> k.x \div 2, y |-> k.y \div 2]
createNeighborKey(k, d) ==
    [up |-> 0,
     x |-> CASE d = "WEST" -> IF k.x > 0 THEN k.x - 1 ELSE k.tileCountX - 1
             [] d = "EAST" -> IF k.x < k.tileCountX - 1 THEN k.x + 1 ELSE 0
             [] OTHER -> k.x,
     y |-> CASE d = "SOUTH" -> IF k.y > 0 THEN k.y - 1 ELSE k.tileCountY - 1
             [] d = "NORTH" -> IF k.y < k.tileCountY - 1 THEN k.y + 1 ELSE 0
             [] OTHER -> k.y]
RelativeKey(k, d) ==
    IF d = "PARENT" THEN createParentKey(k) ELSE createNeighborKey(k, d)

\* getCustomTile: the tile stored under the key, or none.
getCustomTile(key) ==
    IF key \in DOMAIN ftiles THEN ftiles[key] ELSE NoStoredTile

\* A refresh that keeps the imagery LODs of the pass before.
Clear_Keep(imageLODs) == imageLODs

\* imageLODs.clear()
Clear(imageLODs) == <<>>

\* The loop over the color layers of the tile found: the LOD of every
\* TransparentLayer is stored under the UID of the layer.
RECURSIVE FillImageLODs(_, _)
FillImageLODs(imageLODs, layers) ==
    IF layers = <<>> THEN imageLODs
    ELSE LET layer == Head(layers)
         IN FillImageLODs(IF layer.transparent
                          THEN (layer.uid :> layer.lod) @@ imageLODs
                          ELSE imageLODs,
                          Tail(layers))

\* One Relative: reset the elevation LOD, clear the imagery LODs, set the
\* key, look the tile up and copy its LODs when it is there.
RefreshRelative(old, key) ==
    LET reset == [key |-> key, elevLOD |-> -1,
                  imageLODs |-> Clear(old.imageLODs)]
        tile == getCustomTile(key)
    IN IF tile.valid
       THEN [reset EXCEPT !.elevLOD = tile.elevLOD,
                          !.imageLODs = FillImageLODs(@, tile.layers)]
       ELSE reset

\* refreshFamily: the expected flags, keys and LODs of the parent and the
\* neighbours.
refreshFamily(k) ==
    /\ fkey' = k
    /\ family' = [done |-> TRUE, west |-> WestExpected(k),
                  east |-> EastExpected(k), north |-> NorthExpected(k),
                  south |-> SouthExpected(k), parent |-> TRUE]
    /\ relatives' = [d \in Directions |->
                        RefreshRelative(relatives[d], RelativeKey(k, d))]
    /\ UNCHANGED <<ftiles, engineVars, taskServices, policy, created, callerPc,
                   callerArgs, callerRet, threadVars, eventVars,
                   revisionVars, lockVars>>

FamilyInit ==
    /\ mode = MODE_STANDARD
    /\ quickRelease = FALSE
    /\ policy = DefaultPolicy
    /\ InitEngine
    /\ InitOther(ConfFor(mode))

FamilyNext == \E k \in FamilyKeys : refreshFamily(k)

FamilySpec == FamilyInit /\ [][FamilyNext]_vars

\* The tiles whose family is followed from pass to pass: the only tile of
\* its level, a tile of a 2 by 2 level and a tile of a 4 by 4 level.
RelativeTiles ==
    {[x |-> 0, y |-> 0, tileCountX |-> n, tileCountY |-> n, wrapX |-> TRUE] :
        n \in {1, 2, 4}}

\* The tiles the table may hold under the key of a relative: the LOD of
\* the elevation and the color layers (the second tile has a color layer
\* that is not a TransparentLayer).
StoredTiles ==
    {[valid |-> TRUE, elevLOD |-> 1,
      layers |-> <<[uid |-> 1, lod |-> 1, transparent |-> TRUE],
                   [uid |-> 2, lod |-> 2, transparent |-> TRUE]>>],
     [valid |-> TRUE, elevLOD |-> 2,
      layers |-> <<[uid |-> 1, lod |-> 2, transparent |-> TRUE],
                   [uid |-> 2, lod |-> 0, transparent |-> FALSE]>>]}
RelativeKeys(k) == {RelativeKey(k, d) : d \in Directions}

\* A tile is stored under the key of a relative (registerTile), or the
\* entry of the key is erased (the drain of the update pass).
StoreRelative(key, tile) ==
    /\ fkey # NoFamilyKey
    /\ ftiles' = (key :> tile) @@ ftiles
    /\ UNCHANGED <<fkey, family, relatives, engineVars, taskServices, policy,
                   created, callerPc, callerArgs, callerRet, threadVars,
                   eventVars, revisionVars, lockVars>>

EraseRelative(key) ==
    /\ fkey # NoFamilyKey
    /\ key \in DOMAIN ftiles
    /\ ftiles' = [other \in DOMAIN ftiles \ {key} |-> ftiles[other]]
    /\ UNCHANGED <<fkey, family, relatives, engineVars, taskServices, policy,
                   created, callerPc, callerArgs, callerRet, threadVars,
                   eventVars, revisionVars, lockVars>>

\* The family of one tile, refreshed pass after pass while the tiles
\* stored for its relatives come, change and go.
RelativeInit ==
    /\ mode = MODE_STANDARD
    /\ quickRelease = FALSE
    /\ policy = DefaultPolicy
    /\ InitEngine
    /\ InitOther(ConfFor(mode))

\* The update pass refreshes the family of the tile followed.
RefreshTile(k) ==
    /\ fkey = NoFamilyKey \/ fkey = k
    /\ refreshFamily(k)

RelativeNext ==
    \/ \E k \in RelativeTiles : RefreshTile(k)
    \/ \E key \in RelativeKeys(fkey), tile \in StoredTiles :
           StoreRelative(key, tile)
    \/ \E key \in RelativeKeys(fkey) : EraseRelative(key)

RelativeSpec == RelativeInit /\ [][RelativeNext]_vars

\* ---------------------------------------------------------------- locking
\* The lock operations of a call, in the order the code performs them:
\* "rlock"/"runlock" and "wlock"/"wunlock" on _tilesMutex, "mlock"/"munlock"
\* on _taskServiceMutex.
getCustomTilesLocks == <<"rlock", "runlock">>
getCustomTileLocks(lock) == IF lock THEN <<"rlock", "runlock">> ELSE <<>>
getTaskServiceLocks == <<"mlock", "munlock">>
createTaskServiceLocks == <<"mlock", "munlock">>
getNumTasksRemainingLocks == <<"mlock", "munlock">>

\* An accessor that does not find the service: getTaskService, then
\* createTaskService.
AccessorLocks == getTaskServiceLocks \o createTaskServiceLocks

\* An update pass that calls refreshFamily as if the table were unlocked.
TileTableLocked_Not == FALSE

\* The tileTableLocked argument the update pass gives to refreshFamily.
TileTableLocked == TRUE

\* refreshFamily: five getCustomTile( key, tile, !tileTableLocked ) calls.
refreshFamilyLocks(tileTableLocked) ==
    LET one == getCustomTileLocks(~tileTableLocked)
    IN one \o one \o one \o one \o one

\* The update pass: the working copy, the exclusive section, the stamp
\* loop and the read-locked section, in which a tile's request servicing
\* asks the engine for its task service.
UpdateLocks ==
    getCustomTilesLocks \o <<"wlock", "wunlock">> \o <<"mlock", "munlock">>
        \o <<"rlock">> \o refreshFamilyLocks(TileTableLocked)
        \o (IF getUseLayerRequests THEN AccessorLocks ELSE <<>>)
        \o <<"runlock">>

\* The cull pass: outside standard mode the copy of the table, then the
\* request servicing of the tiles.
CullLocks ==
    IF mode # MODE_STANDARD THEN getCustomTilesLocks \o AccessorLocks
    ELSE <<>>

\* The event pass, registerTile, releaseGLObjectsForTiles, and an accessor
\* called from outside the passes.
EventLocks == getNumTasksRemainingLocks
RegisterLocks == <<"wlock", "wunlock">>
ReleaseLocks == <<"rlock", "runlock">>

LockProgram(th) ==
    CASE th = "update" -> UpdateLocks
      [] th = "cull" -> CullLocks
      [] th = "event" -> EventLocks
      [] th = "pager" -> RegisterLocks
      [] th = "draw" -> ReleaseLocks
      [] OTHER -> AccessorLocks

\* The lock operation a thread is about to perform ("idle" between calls).
LockOp(th) ==
    IF lockPc[th] = 0 THEN "idle" ELSE LockProgram(th)[lockPc[th]]
AfterOp(th) ==
    [lockPc EXCEPT ![th] =
        IF lockPc[th] = Len(LockProgram(th)) THEN 0 ELSE lockPc[th] + 1]
LockUnchanged ==
    UNCHANGED <<engineVars, taskServices, policy, created, callerPc,
                callerArgs, callerRet, threadVars, eventVars, revisionVars,
                familyVars>>

\* A thread enters its call.
LockCall(th) ==
    /\ lockPc[th] = 0
    /\ Len(LockProgram(th)) > 0
    /\ lockPc' = [lockPc EXCEPT ![th] = 1]
    /\ UNCHANGED <<tilesReaders, tilesWriter, registryOwner>>
    /\ LockUnchanged

\* ScopedReadLock on _tilesMutex: granted while no thread writes.
AcquireRead(th) ==
    /\ LockOp(th) = "rlock"
    /\ tilesWriter = NoThread
    /\ tilesReaders' = tilesReaders \cup {th}
    /\ lockPc' = AfterOp(th)
    /\ UNCHANGED <<tilesWriter, registryOwner>>
    /\ LockUnchanged

ReleaseRead(th) ==
    /\ LockOp(th) = "runlock"
    /\ tilesReaders' = tilesReaders \ {th}
    /\ lockPc' = AfterOp(th)
    /\ UNCHANGED <<tilesWriter, registryOwner>>
    /\ LockUnchanged

\* ScopedWriteLock on _tilesMutex: granted while no thread reads or writes.
AcquireWrite(th) ==
    /\ LockOp(th) = "wlock"
    /\ tilesWriter = NoThread
    /\ tilesReaders = {}
    /\ tilesWriter' = th
    /\ lockPc' = AfterOp(th)
    /\ UNCHANGED <<tilesReaders, registryOwner>>
    /\ LockUnchanged

ReleaseWrite(th) ==
    /\ LockOp(th) = "wunlock"
    /\ tilesWriter' = NoThread
    /\ lockPc' = AfterOp(th)
    /\ UNCHANGED <<tilesReaders, registryOwner>>
    /\ LockUnchanged

\* ScopedLock<Mutex> on _taskServiceMutex.
LockRegistry(th) ==
    /\ LockOp(th) = "mlock"
    /\ registryOwner = NoThread
    /\ registryOwner' = th
    /\ lockPc' = AfterOp(th)
    /\ UNCHANGED <<tilesReaders, tilesWriter>>
    /\ LockUnchanged

UnlockRegistry(th) ==
    /\ LockOp(th) = "munlock"
    /\ registryOwner' = NoThread
    /\ lockPc' = AfterOp(th)
    /\ UNCHANGED <<tilesReaders, tilesWriter>>
    /\ LockUnchanged

\* All the entry points called over and over, each from its own thread.
LockInit ==
    /\ mode \in Modes
    /\ quickRelease = FALSE
    /\ policy = DefaultPolicy
    /\ InitEngine
    /\ InitOther(ConfFor(mode))

LockNext ==
    \/ \E th \in LockThreads : LockCall(th)
    \/ \E th \in LockThreads : AcquireRead(th)
    \/ \E th \in LockThreads : ReleaseRead(th)
    \/ \E th \in LockThreads : AcquireWrite(th)
    \/ \E th \in LockThreads : ReleaseWrite(th)
    \/ \E th \in LockThreads : LockRegistry(th)
    \/ \E th \in LockThreads : UnlockRegistry(th)

LockSpec == LockInit /\ [][LockNext]_vars

\* ---------------------------------------------------------------- passes
\* The map frame of the rebalancing call that runs between the passes.
PassFrame ==
    [elevation |-> <<1>>, imageLayers |-> {1},
     weight |-> [l \in LayerIds |-> IF l = 1 THEN 1 ELSE 0]]

\* Update, cull and event passes over an engine whose task services are
\* created by their accessors and by a rebalancing call while work comes
\* and goes.
PassInit ==
    /\ mode = MODE_PREEMPTIVE
    /\ quickRelease = FALSE
    /\ policy = DefaultPolicy
    /\ InitEngine
    /\ InitOther(ConfFor(mode))

PassNext ==
    \/ getElevationTaskService(1)
    \/ \E l \in RacedLayers : getImageryTaskService(1, l)
    \/ AccessorCreate(1)
    \/ updateTaskServiceThreads(PassFrame, 0)
    \/ SubmitRequest(ELEVATION_TASK_SERVICE_ID)
    \/ CompleteRequest(ELEVATION_TASK_SERVICE_ID)
    \/ UpdateBegin
    \/ UpdateMark
    \/ UpdateDrain
    \/ UpdateStamp
    \/ UpdateService
    \/ CullBegin
    \/ CullService
    \/ EventTraverse

PassSpec == PassInit /\ [][PassNext]_vars

\* ---------------------------------------------------------------- properties
InShutDown(t) == InSeq(tilesToShutDown, t)
DrainStep == NextPhase(upc) = "drain" /\ upc' = "drain"
ServiceStep == NextPhase(upc) = "service" /\ upc' = "idle"
ReleaseOne == rpc = "locked" /\ Len(relLog') = Len(relLog) + 1

\* C1: the table holds one tile for every address that has been registered
\* and whose (most recently registered) tile has not completed retirement.
C1_OneTilePerRegisteredAddress ==
    \A k \in Keys :
        (lastReg[k] # NoTile /\ lastReg[k] \notin retired)
            => tiles[k] = lastReg[k]

\* C2: with update passes running, a tile of the table that only the table
\* references and that has been traversed is eventually out of the table
\* and out of the shutdown queue, provided its requests drain for good.
RetirementCandidate(t) ==
    InTable(t) /\ ReferenceCount(t) = 1 /\ hasBeenTraversed[t]
Gone(t) == ~InTable(t) /\ ~InShutDown(t)
C3_InTableIffNotRetired ==
    \A t \in Tiles :
        (t \in registered /\ lastReg[KeyOf(t)] = t)
            => (InTable(t) <=> (t \in registered /\ t \notin retired))

\* C4: for every identifier at most one task service is ever constructed;
\* it is the one stored, with the name and thread count it was constructed
\* with, and every finished call for the identifier returned it.
CreatedFor(id) == {i \in DOMAIN created : created[i].id = id}
C4_OneServicePerId ==
    /\ \A id \in ServiceIds :
          /\ Cardinality(CreatedFor(id)) <= 1
          /\ taskServices[id] # NoService =>
                \E i \in CreatedFor(id) :
                    /\ taskServices[id].inst = created[i].inst
                    /\ taskServices[id].name = created[i].name
                    /\ taskServices[id].numThreads = created[i].numThreads
    /\ \A c \in Callers :
          callerRet[c] # 0 =>
              callerRet[c] = taskServices[callerArgs[c].id].inst
C4_Witness ==
    \E c \in Callers :
        /\ callerArgs[c].lost
        /\ callerRet[c] # 0
        /\ callerRet[c] = taskServices[callerArgs[c].id].inst
        /\ callerArgs[c].name # taskServices[callerArgs[c].id].name

\* C5: releaseGLObjects is invoked on a tile only when no load request of
\* the tile is outstanding and none was issued since its cancelRequests()
\* returned true.
C5_NoReleaseWhileBusy ==
    [][ReleaseOne =>
          LET t == Head(tilesToRelease)
          IN pending[t] = 0 /\ t \notin tainted]_vars

\* C6: in every update pass the phases run in the order retirement
\* marking, shutdown-queue drain, stamp propagation, refresh and servicing.
PhaseOrder == <<"mark", "drain", "stamp", "service">>
C6_PhaseOrder ==
    /\ Len(phaseLog) <= Len(PhaseOrder)
    /\ \A i \in DOMAIN phaseLog : phaseLog[i] = PhaseOrder[i]
C6_Witness == phaseLog = PhaseOrder

\* C7: refreshFamily and request servicing are never invoked on a tile
\* whose table entry a drain step has already erased.
C7_NoServiceAfterRemoval ==
    [][ServiceStep =>
          \A i \in DOMAIN utiles : utiles[i] \notin removed]_vars

\* C8: a tile leaves the shutdown queue only in a drain step in which its
\* cancelRequests() returned true; a tile whose cancelRequests() returned
\* false stays in the shutdown queue and in the table and is not added to
\* the release queue.
C8_LeavesOnlyWhenCancelled ==
    [][\A t \in Tiles :
          /\ Count(tilesToShutDown', t) < Count(tilesToShutDown, t)
                 => DrainStep /\ cancelRequests(t)
          /\ (DrainStep /\ InShutDown(t) /\ ~cancelRequests(t))
                 => /\ Count(tilesToShutDown', t) = Count(tilesToShutDown, t)
                    /\ InTable(t) => InTable(t)'
                    /\ Count(tilesToRelease', t) = Count(tilesToRelease, t)
      ]_vars

\* C9 as stated: with quick release enabled, every tile the drain step
\* retires is appended to the release queue in that step.
Retiring(t) == DrainStep /\ InShutDown(t) /\ cancelRequests(t)
QueuedForRelease(t) ==
    Count(tilesToRelease', t) > Count(tilesToRelease, t)
C9_Original ==
    [][\A t \in Tiles : (quickRelease /\ Retiring(t)) => QueuedForRelease(t)
      ]_vars

\* C9 amended: with quick release enabled and the quick-release draw
\* callback installed, every tile the drain step retires is appended to the
\* release queue in that step.
C9_QueuedWhenInstalled ==
    [][\A t \in Tiles :
          (quickRelease /\ callbackInstalled /\ Retiring(t))
              => (QueuedForRelease(t) /\ ~InTable(t)')
      ]_vars
C9_Witness ==
    quickRelease /\ callbackInstalled /\
        \E t \in Tiles : t \in retired /\ InSeq(tilesToRelease, t)

\* C10: a release call releases the tiles of the release queue in the
\* order they were queued, pops a tile only when it has been released, and
\* ends with the queue empty; nothing else takes a tile off the queue.
C10_ReleaseFifo ==
    /\ [](rpc = "locked" => relLog \o tilesToRelease = relStart)
    /\ [][/\ Len(tilesToRelease') < Len(tilesToRelease)
               => /\ ReleaseOne
                  /\ relLog' = Append(relLog, Head(tilesToRelease))
                  /\ tilesToRelease' = Tail(tilesToRelease)
          /\ (rpc = "locked" /\ rpc' = "idle")
               => (relLog = relStart /\ tilesToRelease' = <<>>)]_vars
C10_Witness == rpc = "locked" /\ Len(relLog) = 2 /\ relLog[1] # relLog[2]

\* ---------------------------------------------------------------- thread budget
\* t is the whole number nearest to num / den (halves round up).
Nearest(t, num, den) ==
    2 * den * t - den <= 2 * num /\ 2 * num < 2 * den * t + den
\* The count a service of weight w gets out of the total weight tot.
ProportionalCount(t, w, tot) ==
    IF w > 0 /\ 2 * numLoadingThreads * w < tot THEN t = 1
    ELSE Nearest(t, numLoadingThreads * w, tot)
Rebalanced == mapf # NoMap
Threads(id) == taskServices[id].numThreads
RECURSIVE SumSeq(_)
SumSeq(ws) == IF ws = <<>> THEN 0 ELSE Head(ws) + SumSeq(Tail(ws))
SumOfAllWeights == SumSeq(mapf.elevation) + totalImageWeight(mapf)

ResizedLayers == mapf.imageLayers
ElevationResized == elevationWeight(mapf) > 0
NumResized == Cardinality(ResizedLayers) + (IF ElevationResized THEN 1 ELSE 0)
SumAssigned ==
    SumOver([l \in LayerIds |-> Threads(l)], ResizedLayers)
        + (IF ElevationResized THEN Threads(ELEVATION_TASK_SERVICE_ID) ELSE 0)
\* The resized services of nonzero weight whose share rounds to 0.
RaisedToOne(w) == w > 0 /\ 2 * numLoadingThreads * w < totalWeight(mapf)
NumRaised ==
    Cardinality({l \in ResizedLayers : RaisedToOne(mapf.weight[l])})
        + (IF ElevationResized /\ RaisedToOne(elevationWeight(mapf))
           THEN 1 ELSE 0)
ExampleFrame ==
    [elevation |-> <<>>, imageLayers |-> {1, 2}, weight |-> <<1, 3>>]
ExampleHolds ==
    (mapf = ExampleFrame /\ numLoadingThreads = 8)
        => (Threads(1) = 2 /\ Threads(2) = 6)

NonStandard(c) == c.mode \in {"sequential", "preemptive"}

\* C17 as stated: the loading-thread count is the environment override
\* when set, else the configured count when set, else the per-core
\* multiplier times the processor count; nothing changes it later.
C17_Original ==
    /\ conf.env # Absent => numLoadingThreads = atoi(conf.env)
    /\ (conf.env = Absent /\ conf.loadingThreads.set)
           => numLoadingThreads = conf.loadingThreads.value
    /\ (conf.env = Absent /\ ~conf.loadingThreads.set)
           => 2 * numLoadingThreads = conf.perCoreHalves * conf.procs

\* C17 amended: in sequential or preemptive mode the count is the
\* environment override when set, else the configured count when set
\* (raised to 1), else the per-core multiplier times the processor count
\* (truncated, raised to 1); in standard mode it is 0; nothing changes it
\* later.
C17_ThreadChoice ==
    /\ ~NonStandard(conf) => numLoadingThreads = 0
    /\ (NonStandard(conf) /\ conf.env # Absent)
           => numLoadingThreads = atoi(conf.env)
    /\ (NonStandard(conf) /\ conf.env = Absent /\ conf.loadingThreads.set)
           => numLoadingThreads
                  = (IF conf.loadingThreads.value < 1 THEN 1
                     ELSE conf.loadingThreads.value)
    /\ (NonStandard(conf) /\ conf.env = Absent /\ ~conf.loadingThreads.set)
           => numLoadingThreads
                  = (IF conf.perCoreHalves * conf.procs < 2 THEN 1
                     ELSE (conf.perCoreHalves * conf.procs) \div 2)
C17_Witness ==
    /\ NonStandard(conf)
    /\ conf.env = "8"
    /\ conf.loadingThreads.set
    /\ numLoadingThreads = 8
    /\ Rebalanced

\* C18: a Config whose mode string is none of standard, sequential and
\* preemptive leaves the mode at standard; a recognised string selects
\* exactly that mode.
C18_ModeFromConfig ==
    /\ conf.mode = "standard" => mode = MODE_STANDARD
    /\ conf.mode = "sequential" => mode = MODE_SEQUENTIAL
    /\ conf.mode = "preemptive" => mode = MODE_PREEMPTIVE
    /\ conf.mode \notin {"standard", "sequential", "preemptive"}
           => mode = MODE_STANDARD
C18_Witness == conf.mode = "bogus" /\ mode = MODE_STANDARD /\ Rebalanced

\* ---------------------------------------------------------------- event pass
\* C11: once an event pass has seen tasks, the pass that saw them last and
\* the one pass after it request a redraw, and no later pass does (until
\* tasks are seen again).
C11_HoldOpenOnePass ==
    eventLog.seen =>
        /\ eventLog.since <= 1 => eventLog.redraw
        /\ eventLog.since >= 2 => ~eventLog.redraw
C11_Witness ==
    eventLog.seen /\ eventLog.since = MaxSince /\ ~eventLog.redraw

\* C14: the number getNumTasksRemaining returns is the sum of the
\* pending-request counts of the services of the registry; with k units
\* on one service and none on the others it is k.
C14_SumOfRequests ==
    eventLog.fresh =>
        /\ numTasks =
               SumOver(numRequests, {id \in ServiceIds :
                                        taskServices[id] # NoService})
        /\ \A id \in ServiceIds :
               (\A other \in ServiceIds \ {id} : numRequests[other] = 0)
                   => numTasks = numRequests[id]
C14_Witness ==
    /\ eventLog.fresh
    /\ \A id \in RacedIds : taskServices[id] # NoService
    /\ numRequests[1] = MaxRequests
    /\ numRequests[ELEVATION_TASK_SERVICE_ID] = 0
    /\ numRequests[TILE_GENERATION_TASK_SERVICE_ID] = 0
    /\ numTasks = MaxRequests

\* ---------------------------------------------------------------- refreshFamily
\* C15: after refreshFamily WEST is expected iff x > 0 or the profile
\* wraps, EAST iff x < tileCountX-1 or the profile wraps, NORTH iff
\* y < tileCountY-1 and SOUTH iff y > 0.
C15_ExpectedFlags ==
    family.done =>
        /\ family.west <=> (fkey.x > 0 \/ fkey.wrapX)
        /\ family.east <=> (fkey.x < fkey.tileCountX - 1 \/ fkey.wrapX)
        /\ family.north <=> fkey.y < fkey.tileCountY - 1
        /\ family.south <=> fkey.y > 0
C15_Witness ==
    /\ family.done
    /\ fkey.wrapX
    /\ fkey.x = 0 /\ fkey.y = 0 /\ fkey.tileCountY = 1
    /\ family.west /\ ~family.north /\ ~family.south

\* ---------------------------------------------------------------- revision
\* C16: the value getRevision returns never decreases.
C16_RevisionMonotonic == [][revSeen' >= revSeen]_vars

\* ---------------------------------------------------------------- locking
RegisterStep == registered' # registered
\* C19: the table changes only in registerTile and in the drain step, the
\* release queue grows only in the drain step, and both only while no
\* release call holds the read lock.
C19_ExclusiveMutation ==
    [][/\ tiles' # tiles => (rpc = "idle" /\ (RegisterStep \/ DrainStep))
       /\ Len(tilesToRelease') > Len(tilesToRelease)
              => (rpc = "idle" /\ DrainStep)]_vars
C19_Witness ==
    /\ rpc = "locked"
    /\ NextPhase(upc) = "drain"
    /\ \E t \in Tiles : InShutDown(t) /\ InTable(t) /\ cancelRequests(t)

\* ---------------------------------------------------------------- marking
MarkStep == NextPhase(upc) = "mark" /\ upc' = "mark"
Draining(t) == DrainStep /\ InShutDown(t) /\ cancelRequests(t)

\* C23: a drain step erases from the table only entries that hold a tile
\* it is draining; a tile registered under the address of a tile waiting
\* in the shutdown queue stays in the table when the old tile drains.
C23_ErasesOwnEntry ==
    [][DrainStep =>
          \A u \in Tiles : (InTable(u) /\ ~Draining(u)) => InTable(u)']_vars

CullCopy == cpc = "idle" /\ cpc' = "copied"
\* C24: an update pass does not service the requests of a tile that is in
\* the shutdown queue, and a cull pass that starts while a tile is in the
\* shutdown queue does not take the tile into the copy it services.
C24_NoServiceOnceQueued ==
    [][/\ (ServiceStep /\ getUseLayerRequests)
              => \A t \in Tiles : InSeq(utiles, t) => ~InShutDown(t)
       /\ CullCopy
              => \A t \in Tiles : InSeq(ctiles', t) => ~InShutDown(t)]_vars

C26_StuckTileDoesNotBlock ==
    [][DrainStep =>
          \A t \in Tiles :
              InShutDown(t) =>
                  IF cancelRequests(t)
                  THEN ~InShutDown(t)' /\ ~InTable(t)'
                  ELSE InShutDown(t)' /\ (InTable(t) => InTable(t)')]_vars

\* ---------------------------------------------------------------- thread floor
\* C28: in sequential or preemptive mode the loading-thread count fixed
\* at construction is at least 1, whichever source supplied it.
C28_AtLeastOneThread == mode # MODE_STANDARD => numLoadingThreads >= 1

\* ---------------------------------------------------------------- stamps
StampStep == NextPhase(upc) = "stamp" /\ upc' = "stamp"
\* C21: when the stamp step of an update pass with frame number F ends,
\* every task service of the registry has stamp F; the stamp of a service
\* changes in no other step.
C21_StampPropagation ==
    [][/\ StampStep =>
              \A id \in ServiceIds :
                  taskServices'[id] # NoService
                      => taskServices'[id].stamp = stamp
       /\ \A id \in ServiceIds :
              (/\ taskServices[id] # NoService
               /\ taskServices'[id].stamp # taskServices[id].stamp)
                  => StampStep]_vars
C21_Witness ==
    /\ upc = "stamp"
    /\ stamp = MaxFrame
    /\ cpc = "copied"
    /\ taskServices[ELEVATION_TASK_SERVICE_ID] # NoService
    /\ taskServices[ELEVATION_TASK_SERVICE_ID].stamp = MaxFrame
    /\ taskServices[1] # NoService
    /\ taskServices[1].stamp = MaxFrame
    /\ taskServices[1].inst < taskServices[ELEVATION_TASK_SERVICE_ID].inst

\* ---------------------------------------------------------------- redraw governor
\* C29: the on-demand delay stays in 0..2; an event pass requests a redraw
\* iff tasks remain or the delay was positive when the pass began; only
\* event passes change the delay.
C29_DelayRange ==
    /\ [](onDemandDelay \in 0..2)
    /\ [][/\ EventTraverse =>
                 (eventLog'.redraw
                      <=> (getNumTasksRemaining > 0 \/ onDemandDelay > 0))
          /\ onDemandDelay' # onDemandDelay
                 => (EventTraverse /\ upc' = upc /\ cpc' = cpc)]_vars
C29_Witness ==
    /\ onDemandDelay = 0
    /\ eventLog.seen /\ eventLog.redraw /\ eventLog.since = 1
    /\ upc = "drain"
    /\ cpc = "copied"

\* ---------------------------------------------------------------- relatives
\* The (layer id, LOD) pairs of the imagery layers of a stored tile.
ImageryPairs(tile) ==
    {<<tile.layers[i].uid, tile.layers[i].lod>> :
        i \in {j \in DOMAIN tile.layers : tile.layers[j].transparent}}
PairsOf(imageLODs) == {<<uid, imageLODs[uid]>> : uid \in DOMAIN imageLODs}
\* C22: after refreshFamily the key of each of the five Relatives is the
\* parent or neighbour key of the tile, its elevation LOD is that of the
\* tile stored under the key, or -1 when none is stored, and its imagery
\* LODs are exactly the (layer id, LOD) pairs of the imagery layers of
\* that tile, none when no tile is stored.
C22_RelativesRecomputed ==
    [][\A k \in RelativeTiles :
          refreshFamily(k) =>
              \A d \in Directions :
                  LET key == RelativeKey(k, d)
                      r == relatives'[d]
                  IN /\ r.key = key
                     /\ d = "PARENT" => key = [up |-> 1, x |-> 0, y |-> 0]
                     /\ IF key \in DOMAIN ftiles
                        THEN /\ r.elevLOD = ftiles[key].elevLOD
                             /\ PairsOf(r.imageLODs)
                                    = ImageryPairs(ftiles[key])
                        ELSE /\ r.elevLOD = -1
                             /\ PairsOf(r.imageLODs) = {}]_vars
C22_Witness ==
    /\ fkey.tileCountX = 4
    /\ relatives["WEST"].key = [up |-> 0, x |-> 3, y |-> 0]
    /\ relatives["WEST"].elevLOD = 2
    /\ PairsOf(relatives["WEST"].imageLODs) = {<<1, 2>>}
    /\ relatives["EAST"].key = [up |-> 0, x |-> 1, y |-> 0]
    /\ relatives["EAST"].elevLOD = 1
    /\ PairsOf(relatives["EAST"].imageLODs) = {<<1, 1>>, <<2, 2>>}
    /\ relatives["PARENT"].elevLOD = -1
    /\ PairsOf(relatives["PARENT"].imageLODs) = {}
    /\ relatives["SOUTH"].key = [up |-> 0, x |-> 0, y |-> 3]

\* ---------------------------------------------------------------- lock order
RequestsTiles(th) == LockOp(th) \in {"rlock", "wlock"}
HoldsTiles(th) == th \in tilesReaders \/ tilesWriter = th
\* The threads a request waits for: a read lock waits for the writer and,
\* where the lock prefers writers, for the threads waiting to write; a
\* write lock waits for the readers and the writer; the mutex for its
\* owner.
WaitsFor(th) ==
    (CASE LockOp(th) = "rlock" ->
              {tilesWriter} \cup {w \in LockThreads : LockOp(w) = "wlock"}
       [] LockOp(th) = "wlock" -> tilesReaders \cup {tilesWriter}
       [] LockOp(th) = "mlock" -> {registryOwner}
       [] OTHER -> {}) \ {NoThread}
\* A set of threads each of which waits for a thread of the set.
Deadlocked(S) == S # {} /\ \A th \in S : WaitsFor(th) \cap S # {}

\* C27: no set of threads is deadlocked; a thread that requests the
\* tile-table lock does not hold the registry mutex, and does not hold
\* the tile-table lock already.
C27_NoDeadlock ==
    /\ \A S \in SUBSET LockThreads : ~Deadlocked(S)
    /\ \A th \in LockThreads :
           RequestsTiles(th) => (registryOwner # th /\ ~HoldsTiles(th))
C27_Witness ==
    /\ "update" \in tilesReaders
    /\ LockOp("update") = "mlock"
    /\ registryOwner = "cull"
    /\ "draw" \in tilesReaders
    /\ LockOp("pager") = "wlock"
    /\ LockOp("app") = "mlock"
    /\ LockOp("event") = "mlock"

====
